---------------------------- MODULE Spec2Model ----------------------------
(***************************************************************************)
(* The two forecasting scripts of CNS_Prediction as one state machine:     *)
(*   scr/ARIMA_lib.py  (ARIMAForecaster and its usage script)              *)
(*   scr/xgb_lib.py    (XGBoostForecaster and its usage script)            *)
(* A behaviour is one run of one script on one workbook.  The external     *)
(* fitters (pmdarima.auto_arima, xgboost, GridSearchCV) are black boxes:   *)
(* their results are uninterpreted terms that record what they were given. *)
(***************************************************************************)
EXTENDS Integers, Sequences, FiniteSets, TLC

VARIABLES
    script,          \* which usage script runs: "ARIMA" or "XGB"
    pc,              \* position in the usage script
    error,           \* the exception that ended the run, [kind, at]
    excel_data,      \* pd.read_excel(..., sheet_name=None): ordered sheets (sheets_dict)
    data,            \* self.combined_data (ARIMA) / self.data (XGB)
    split_args,      \* the (train_year, test_year) given to ARIMA split_data
    train_data,      \* self.train_data
    test_data,       \* self.test_data
    X_train,         \* self.X_train (XGB)
    y_train,         \* self.y_train (XGB)
    X_test,          \* self.X_test (XGB)
    y_test,          \* self.y_test (XGB)
    predictions,     \* self.predictions (ARIMA)
    fitted,          \* entities predict_arima was called for in train_and_evaluate
    raised,          \* entities whose fit raised in train_and_evaluate
    total_time,      \* self.total_time / self.training_time
    grid_search,     \* the fitted GridSearchCV object (XGB)
    best_xgb_model,  \* self.best_xgb_model (XGB)
    y_pred,          \* self.y_pred (XGB)
    metrics,         \* self.mse, rmse, r2, evs, mae, medae
    files            \* the CSV files written so far

vars == <<script, pc, error, excel_data, data, split_args, train_data, test_data,
          X_train, y_train, X_test, y_test, predictions, fitted, raised,
          total_time, grid_search, best_xgb_model, y_pred, metrics, files>>

---------------------------------------------------------------------------
(* Bounds of the model and constants of the program.                       *)

MaxSheets == 2          \* sheets of a workbook given to the ARIMA script
MaxXgbSheets == 12      \* sheets of a workbook given to the XGB script
RowSlack == 1           \* XGB sheets hold RowsPerYear -+ RowSlack rows
MaxLen == 3             \* length of the sequences given to the metrics alone

RowsPerYear == 107      \* data.index // 107
TestYearIndex == 10     \* year < 10 / year == 10
CvFolds == 5            \* GridSearchCV(cv=5)
DefaultTrainYear == 2018
DefaultTestYear == 2019

NoError == [kind |-> "none", at |-> "none"]

ColComune == "comune"
ColDeaths == "cns deaths"
AllColumns == {"comune", "PM2.5", "PM10", "cns deaths"}
XgbColumns == <<"year", "comune", "PM2.5", "PM10", "cns deaths">>
FeatureColumns == {"year", "comune", "PM2.5", "PM10"}

---------------------------------------------------------------------------
(* Python's int(str) on a sheet name.                                      *)

DigitVal == ("0" :> 0) @@ ("1" :> 1) @@ ("2" :> 2) @@ ("3" :> 3) @@ ("4" :> 4) @@
            ("5" :> 5) @@ ("6" :> 6) @@ ("7" :> 7) @@ ("8" :> 8) @@ ("9" :> 9)

RECURSIVE LStrip(_)
LStrip(s) == IF s # <<>> /\ Head(s) = " " THEN LStrip(Tail(s)) ELSE s

RECURSIVE RStrip(_)
RStrip(s) == IF s # <<>> /\ s[Len(s)] = " " THEN RStrip(SubSeq(s, 1, Len(s) - 1)) ELSE s

RECURSIVE DigitsValue(_, _)
DigitsValue(s, acc) ==
    IF s = <<>> THEN acc ELSE DigitsValue(Tail(s), 10 * acc + DigitVal[Head(s)])

\* int(sheet_name): surrounding whitespace is stripped, one sign is allowed,
\* the rest must be a non-empty run of decimal digits; otherwise ValueError.
PyInt(s) ==
    LET t == RStrip(LStrip(s))
        signed == t # <<>> /\ Head(t) \in {"+", "-"}
        d == IF signed THEN Tail(t) ELSE t
    IN  IF d # <<>> /\ \A i \in 1..Len(d) : d[i] \in DOMAIN DigitVal
        THEN [ok |-> TRUE,
              val |-> IF signed /\ Head(t) = "-" THEN 0 - DigitsValue(d, 0)
                      ELSE DigitsValue(d, 0)]
        ELSE [ok |-> FALSE, val |-> 0]

\* the sheet name a spreadsheet gives the year y (four decimal digits)
Digit == <<"0", "1", "2", "3", "4", "5", "6", "7", "8", "9">>
YearLabel(y) == << Digit[((y \div 1000) % 10) + 1], Digit[((y \div 100) % 10) + 1],
                   Digit[((y \div 10) % 10) + 1], Digit[(y % 10) + 1] >>

---------------------------------------------------------------------------
(* Data frames: a sequence of rows, a row a function from column to value. *)

\* Series.unique(): the distinct values in order of first appearance
RECURSIVE UniqueFrom(_, _)
UniqueFrom(s, acc) ==
    IF s = <<>> THEN acc
    ELSE UniqueFrom(Tail(s),
                    IF \E i \in 1..Len(acc) : acc[i] = Head(s) THEN acc
                    ELSE Append(acc, Head(s)))

unique_keeping_repeats(df, col) == [i \in 1..Len(df) |-> df[i][col]]

unique(df, col) == UniqueFrom([i \in 1..Len(df) |-> df[i][col]], <<>>)

Column(df, col) == [i \in 1..Len(df) |-> df[i][col]]

Columns(df) == IF df = <<>> THEN {} ELSE DOMAIN df[1]

\* df.assign(year = y) / data["year"] = ...: the row with one more column
WithColumn(row, col, v) == [c \in (DOMAIN row) \cup {col} |-> IF c = col THEN v ELSE row[c]]

\* df[[cols]]: the row restricted to some columns
Project(row, cols) == [c \in cols |-> row[c]]

\* pd.concat: the rows of all frames, in order
RECURSIVE Concat(_)
Concat(frames) == IF frames = <<>> THEN <<>> ELSE Head(frames) \o Concat(Tail(frames))

\* the columns of the concatenated frame (every sheet has the same header)
SheetColumns(sheets) == sheets[1].columns

\* (entity, year) identities of the rows of a frame
Pairs(df) == {<<df[i]["comune"], df[i]["year"]>> : i \in 1..Len(df)}

\* the sheet (position in the workbook) the k-th row of the concatenation came from
RECURSIVE SheetOfRow(_, _, _)
SheetOfRow(sheets, k, s) ==
    IF k <= Len(sheets[s].rows) THEN s
    ELSE SheetOfRow(sheets, k - Len(sheets[s].rows), s + 1)

---------------------------------------------------------------------------
(* The workbooks a run may be given.                                       *)

\* sheet names: two years, a name that parses to a year another sheet may
\* also have, and a name that is no number
Labels == { <<"2","0","1","8">>, <<"2","0","1","9">>, <<" ","2","0","1","8">>,
            <<"S","h","e","e","t","1">> }

\* the comune column of a small sheet
RowShapes == { <<>>, <<1>>, <<2>>, <<1, 2>>, <<2, 1>>, <<1, 1>> }

\* the rows of sheet number s with the given comune column
MakeRows(s, comuni, cols) ==
    [j \in 1..Len(comuni) |->
        [c \in cols |-> IF c = "comune" THEN comuni[j]
                        ELSE IF c = "cns deaths" THEN 1000 * s + j
                        ELSE 0]]

ArimaSchemas == {AllColumns, AllColumns \ {"comune"}, AllColumns \ {"cns deaths"}}
XgbSchemas == {AllColumns, AllColumns \ {"PM10"}, AllColumns \ {"cns deaths"}}

ArimaWorkbooks ==
    LET Shapes == UNION {[1..n -> Labels \X RowShapes] : n \in 1..MaxSheets}
        Distinct(w) == \A i, j \in 1..Len(w) : i # j => w[i][1] # w[j][1]
    IN  {[s \in 1..Len(w) |-> [name |-> w[s][1], columns |-> cols,
                               rows |-> MakeRows(s, w[s][2], cols)]] :
            w \in {x \in Shapes : Distinct(x)}, cols \in ArimaSchemas}

XgbSheetCounts == {1} \cup (TestYearIndex..MaxXgbSheets)
XgbRowCounts == {3} \cup ((RowsPerYear - RowSlack)..(RowsPerYear + RowSlack))

XgbWorkbooks ==
    {[s \in 1..n |-> [name |-> YearLabel(2008 + s), columns |-> cols,
                      rows |-> MakeRows(s, [j \in 1..r |-> IF dup /\ j = 2 THEN 1 ELSE j],
                                        cols)]] :
        n \in XgbSheetCounts, r \in XgbRowCounts, dup \in BOOLEAN, cols \in XgbSchemas}

NoModel == [set |-> FALSE]
NoMetrics == [set |-> FALSE]
NoPredictions == [set |-> FALSE, val |-> <<>>]

Init ==
    /\ script \in {"ARIMA", "XGB"}
    /\ excel_data \in (IF script = "ARIMA" THEN ArimaWorkbooks ELSE XgbWorkbooks)
    /\ pc = "new"
    /\ error = NoError
    /\ data = <<>>
    /\ split_args = [train_year |-> DefaultTrainYear, test_year |-> DefaultTestYear]
    /\ train_data = <<>>
    /\ test_data = <<>>
    /\ X_train = <<>>
    /\ y_train = <<>>
    /\ X_test = <<>>
    /\ y_test = <<>>
    /\ predictions = NoPredictions
    /\ fitted = {}
    /\ raised = {}
    /\ total_time = "unset"
    /\ grid_search = NoModel
    /\ best_xgb_model = NoModel
    /\ y_pred = <<>>
    /\ metrics = NoMetrics
    /\ files = {}

\* an exception leaves the script: nothing after the raising statement runs
Raise(kind, at) ==
    /\ pc' = "failed"
    /\ error' = [kind |-> kind, at |-> at]

---------------------------------------------------------------------------
(* sklearn.metrics, as the two classes call it.                            *)

MetricsRaise_lengths_only(yt, yp) == Len(yt) # Len(yp)

\* every metric first validates its two arguments: check_consistent_length
\* and check_array raise ValueError on unequal lengths and on no samples
MetricsRaise(yt, yp) == Len(yt) # Len(yp) \/ Len(yt) = 0

\* the six metrics over one (y_true, y_pred) pair, as uninterpreted terms
MetricsOf(yt, yp) ==
    LET mse == [fn |-> "mean_squared_error", y_true |-> yt, y_pred |-> yp] IN
    [set   |-> TRUE,
     mse   |-> mse,
     rmse  |-> [fn |-> "sqrt", of |-> mse],
     r2    |-> [fn |-> "r2_score", y_true |-> yt, y_pred |-> yp],
     evs   |-> [fn |-> "explained_variance_score", y_true |-> yt, y_pred |-> yp],
     mae   |-> [fn |-> "mean_absolute_error", y_true |-> yt, y_pred |-> yp],
     medae |-> [fn |-> "median_absolute_error", y_true |-> yt, y_pred |-> yp]]

---------------------------------------------------------------------------
(* ARIMAForecaster                                                         *)

\* prepare_data: every sheet gets year = int(sheet_name), then pd.concat
ARIMA_prepare_data(sheets) ==
    Concat([s \in 1..Len(sheets) |->
              [j \in 1..Len(sheets[s].rows) |->
                  WithColumn(sheets[s].rows[j], "year", PyInt(sheets[s].name).val)]])

\* __init__: read the workbook, self.combined_data = self.prepare_data()
ARIMA_init ==
    /\ script = "ARIMA" /\ pc = "new"
    /\ IF \E s \in 1..Len(excel_data) : ~PyInt(excel_data[s].name).ok
       THEN Raise("ValueError", "prepare_data") /\ UNCHANGED data
       ELSE /\ data' = ARIMA_prepare_data(excel_data)
            /\ pc' = "constructed"
            /\ UNCHANGED error
    /\ UNCHANGED <<script, excel_data, split_args, train_data, test_data, X_train,
                   y_train, X_test, y_test, predictions, fitted, raised, total_time,
                   grid_search, best_xgb_model, y_pred, metrics, files>>

ARIMA_TrainRows_through_next_year(df, train_year) ==
    LET InTrain(r) == r["year"] <= train_year + 1 IN SelectSeq(df, InTrain)

ARIMA_TrainRows(df, train_year) ==
    LET InTrain(r) == r["year"] <= train_year IN SelectSeq(df, InTrain)

ARIMA_TestRows_from_test_year(df, test_year) ==
    LET InTest(r) == r["year"] >= test_year IN SelectSeq(df, InTest)

ARIMA_TestRows(df, test_year) ==
    LET InTest(r) == r["year"] = test_year IN SelectSeq(df, InTest)

\* the years a caller passes to split_data; the script passes the defaults
SplitYears == {DefaultTrainYear, DefaultTestYear}

\* split_data(train_year, test_year)
ARIMA_split_data ==
    /\ script = "ARIMA" /\ pc = "constructed"
    /\ \E train_year \in SplitYears, test_year \in SplitYears :
         /\ split_args' = [train_year |-> train_year, test_year |-> test_year]
         /\ train_data' = ARIMA_TrainRows(data, train_year)
         /\ test_data' = ARIMA_TestRows(data, test_year)
    /\ pc' = "split"
    /\ UNCHANGED <<script, error, excel_data, data, X_train, y_train, X_test, y_test,
                   predictions, fitted, raised, total_time, grid_search,
                   best_xgb_model, y_pred, metrics, files>>

\* the rows of one comune
CityRows(df, comune) ==
    LET IsCity(r) == r["comune"] = comune IN SelectSeq(df, IsCity)

\* predict_arima: reset_index keeps the row order; the series handed to
\* auto_arima is the "cns deaths" column; the forecast is whatever the
\* fitter makes of that series
predict_arima(city_data) ==
    [fn |-> "auto_arima.predict", series |-> Column(city_data, "cns deaths")]

Eligible_test_only(train, test, comune) == CityRows(test, comune) # <<>>

\* whether the loop of train_and_evaluate fits this comune
Eligible(train, test, comune) ==
    CityRows(train, comune) # <<>> /\ CityRows(test, comune) # <<>>

\* the loop of train_and_evaluate over comuni, from the state acc;
\* failing holds the comuni whose fit raises
RECURSIVE EvaluateLoop(_, _, _, _, _)
EvaluateLoop(comuni, train, test, failing, acc) ==
    IF comuni = <<>> \/ acc.status # "ok" THEN acc
    ELSE LET comune == Head(comuni)
             city_train_data == CityRows(train, comune)
             city_test_data == CityRows(test, comune)
             next ==
                IF ~Eligible(train, test, comune) THEN acc
                ELSE IF ColDeaths \notin Columns(train)
                THEN [acc EXCEPT !.status = "KeyError",
                                 !.fitted = @ \cup {comune}]
                ELSE IF comune \in failing
                THEN [acc EXCEPT !.status = "ModelFitFailure",
                                 !.fitted = @ \cup {comune},
                                 !.raised = @ \cup {comune}]
                ELSE [acc EXCEPT !.fitted = @ \cup {comune},
                                 !.predictions = Append(@,
                                     <<comune, predict_arima(city_train_data),
                                       city_test_data[1]["cns deaths"]>>)]
         IN  EvaluateLoop(Tail(comuni), train, test, failing, next)

\* calculate_evaluation_metrics(predictions): y_true is the third and
\* y_pred the second component of every tuple
ARIMA_y_true(preds) == [i \in 1..Len(preds) |-> preds[i][3]]
ARIMA_y_pred(preds) == [i \in 1..Len(preds) |-> preds[i][2]]

calculate_evaluation_metrics(preds) ==
    IF MetricsRaise(ARIMA_y_true(preds), ARIMA_y_pred(preds))
    THEN /\ Raise("ValueError", "calculate_evaluation_metrics")
         /\ UNCHANGED metrics
    ELSE /\ metrics' = MetricsOf(ARIMA_y_true(preds), ARIMA_y_pred(preds))
         /\ pc' = "evaluated"
         /\ UNCHANGED error

\* train_and_evaluate, which ends in calculate_evaluation_metrics
ARIMA_train_and_evaluate ==
    /\ script = "ARIMA" /\ pc = "split"
    /\ IF ColComune \notin SheetColumns(excel_data)
       THEN /\ Raise("KeyError", "train_and_evaluate")
            /\ UNCHANGED <<predictions, fitted, raised, total_time, metrics>>
       ELSE \E failing \in SUBSET {c \in {data[i]["comune"] : i \in 1..Len(data)} :
                                      Eligible(train_data, test_data, c)} :
            LET run == EvaluateLoop(unique(data, "comune"), train_data, test_data, failing,
                                    [status |-> "ok", predictions |-> <<>>,
                                     fitted |-> {}, raised |-> {}])
            IN  /\ fitted' = run.fitted
                /\ raised' = run.raised
                /\ IF run.status # "ok"
                   THEN /\ Raise(run.status, "train_and_evaluate")
                        /\ UNCHANGED <<predictions, total_time, metrics>>
                   ELSE /\ total_time' = "elapsed"
                        /\ predictions' = [set |-> TRUE, val |-> run.predictions]
                        /\ calculate_evaluation_metrics(run.predictions)
    /\ UNCHANGED <<script, excel_data, data, split_args, train_data, test_data, X_train,
                   y_train, X_test, y_test, grid_search, best_xgb_model, y_pred, files>>

\* the loop of predict_upcoming_year: every comune is fitted on all its rows
RECURSIVE UpcomingLoop(_, _, _, _)
UpcomingLoop(comuni, df, failing, acc) ==
    IF comuni = <<>> \/ acc.status # "ok" THEN acc
    ELSE LET comune == Head(comuni)
             city_train_data == CityRows(df, comune)
             next ==
                IF city_train_data = <<>> THEN acc
                ELSE IF ColDeaths \notin Columns(df)
                THEN [acc EXCEPT !.status = "KeyError"]
                ELSE IF comune \in failing
                THEN [acc EXCEPT !.status = "ModelFitFailure"]
                ELSE [acc EXCEPT !.predictions =
                         Append(@, <<comune, predict_arima(city_train_data)>>)]
         IN  UpcomingLoop(Tail(comuni), df, failing, next)

\* save_predictions(predictions): DataFrame(...).to_csv(..., index=False)
ARIMA_csv(preds) ==
    [name |-> "cns_deaths_predictions_ARIMA.csv",
     header |-> <<"comune", "predicted_cns_deaths">>,
     rows |-> preds]

\* predict_upcoming_year(), which ends in save_predictions
ARIMA_predict_upcoming_year ==
    /\ script = "ARIMA" /\ pc = "evaluated"
    /\ \E failing \in SUBSET {data[i]["comune"] : i \in 1..Len(data)} :
         LET run == UpcomingLoop(unique(data, "comune"), data, failing,
                                 [status |-> "ok", predictions |-> <<>>])
         IN  IF run.status # "ok"
             THEN Raise(run.status, "predict_upcoming_year") /\ UNCHANGED files
             ELSE /\ files' = files \cup {ARIMA_csv(run.predictions)}
                  /\ pc' = "saved"
                  /\ UNCHANGED error
    /\ UNCHANGED <<script, excel_data, data, split_args, train_data, test_data, X_train,
                   y_train, X_test, y_test, predictions, fitted, raised, total_time,
                   grid_search, best_xgb_model, y_pred, metrics>>

\* print_evaluation_metrics(): reads the metrics and total_time, changes nothing
ARIMA_print_evaluation_metrics ==
    /\ script = "ARIMA" /\ pc = "saved"
    /\ IF metrics.set /\ total_time # "unset"
       THEN pc' = "done" /\ UNCHANGED error
       ELSE Raise("AttributeError", "print_evaluation_metrics")
    /\ UNCHANGED <<script, excel_data, data, split_args, train_data, test_data, X_train,
                   y_train, X_test, y_test, predictions, fitted, raised, total_time,
                   grid_search, best_xgb_model, y_pred, metrics, files>>

---------------------------------------------------------------------------
(* XGBoostForecaster                                                       *)

\* prepare_data: concat(ignore_index=True), then year = index // 107 on the
\* new 0-based index, then the five columns are selected
XGB_YearOfIndex(index) == index \div RowsPerYear

XGB_prepare_data(sheets) ==
    LET all == Concat([s \in 1..Len(sheets) |-> sheets[s].rows]) IN
    [k \in 1..Len(all) |->
        Project(WithColumn(all[k], "year", XGB_YearOfIndex(k - 1)),
                {XgbColumns[c] : c \in 1..Len(XgbColumns)})]

\* LabelEncoder.fit_transform: the rank of the value among the sorted classes
LabelEncode(df) ==
    LET classes == {df[i]["comune"] : i \in 1..Len(df)}
        code == [c \in classes |-> Cardinality({d \in classes : d < c})]
    IN  [i \in 1..Len(df) |-> [df[i] EXCEPT !["comune"] = code[@]]]

\* __init__
XGB_init ==
    /\ script = "XGB" /\ pc = "new"
    /\ IF ~(AllColumns \subseteq SheetColumns(excel_data))
       THEN Raise("KeyError", "prepare_data") /\ UNCHANGED data
       ELSE /\ data' = LabelEncode(XGB_prepare_data(excel_data))
            /\ pc' = "constructed"
            /\ UNCHANGED error
    /\ UNCHANGED <<script, excel_data, split_args, train_data, test_data, X_train,
                   y_train, X_test, y_test, predictions, fitted, raised, total_time,
                   grid_search, best_xgb_model, y_pred, metrics, files>>

XGB_TrainRows(df) ==
    LET InTrain(r) == r["year"] < TestYearIndex IN SelectSeq(df, InTrain)

XGB_TestRows(df) ==
    LET InTest(r) == r["year"] = TestYearIndex IN SelectSeq(df, InTest)

Features(df) == [i \in 1..Len(df) |-> Project(df[i], FeatureColumns)]

\* split_data()
XGB_split_data ==
    /\ script = "XGB" /\ pc = "constructed"
    /\ train_data' = XGB_TrainRows(data)
    /\ test_data' = XGB_TestRows(data)
    /\ X_train' = Features(XGB_TrainRows(data))
    /\ y_train' = Column(XGB_TrainRows(data), "cns deaths")
    /\ X_test' = Features(XGB_TestRows(data))
    /\ y_test' = Column(XGB_TestRows(data), "cns deaths")
    /\ pc' = "split"
    /\ UNCHANGED <<script, error, excel_data, data, split_args, predictions, fitted,
                   raised, total_time, grid_search, best_xgb_model, y_pred, metrics,
                   files>>

\* the parameter combinations the search may report as best: the two
\* corners of param_grid
BestParamsChoices ==
    { [n_estimators |-> 50, learning_rate |-> "0.01", max_depth |-> 2,
       subsample |-> "0.7", colsample_bytree |-> "0.7"],
      [n_estimators |-> 200, learning_rate |-> "0.2", max_depth |-> 5,
       subsample |-> "1.0", colsample_bytree |-> "1.0"] }

\* what grid_search.fit is given
XGB_SearchInput == [X |-> X_train, y |-> y_train]

XGB_RefitInput_whole_data ==
    [X |-> Features(data), y |-> Column(data, "cns deaths")]

\* what best_xgb_model.fit is given
XGB_RefitInput == [X |-> X_train, y |-> y_train]

\* train(), first half: grid_search.fit(X_train, y_train), training_time,
\* best_params_.  k-fold splitting raises when there are fewer samples than
\* folds; the fit itself may raise
XGB_train_search ==
    /\ script = "XGB" /\ pc = "split"
    /\ \/ /\ Len(XGB_SearchInput.X) < CvFolds
          /\ Raise("ValueError", "grid_search.fit")
          /\ UNCHANGED <<grid_search, total_time>>
       \/ /\ Len(XGB_SearchInput.X) >= CvFolds
          /\ Raise("ModelFitFailure", "grid_search.fit")
          /\ UNCHANGED <<grid_search, total_time>>
       \/ /\ Len(XGB_SearchInput.X) >= CvFolds
          /\ \E best \in BestParamsChoices :
               grid_search' = [set |-> TRUE, cv |-> CvFolds,
                               scoring |-> "neg_mean_squared_error",
                               X |-> XGB_SearchInput.X, y |-> XGB_SearchInput.y,
                               best_params_ |-> best]
          /\ total_time' = "elapsed"
          /\ pc' = "searched"
          /\ UNCHANGED error
    /\ UNCHANGED <<script, excel_data, data, split_args, train_data, test_data, X_train,
                   y_train, X_test, y_test, predictions, fitted, raised,
                   best_xgb_model, y_pred, metrics, files>>

\* train(), second half: a new XGBRegressor(**best_params) fitted on
\* (X_train, y_train)
XGB_train_refit ==
    /\ script = "XGB" /\ pc = "searched"
    /\ \/ /\ best_xgb_model' = [set |-> TRUE, estimator |-> "best_xgb_model",
                                params |-> grid_search.best_params_,
                                X |-> XGB_RefitInput.X, y |-> XGB_RefitInput.y]
          /\ pc' = "trained"
          /\ UNCHANGED error
       \/ /\ Raise("ModelFitFailure", "best_xgb_model.fit")
          /\ UNCHANGED best_xgb_model
    /\ UNCHANGED <<script, excel_data, data, split_args, train_data, test_data, X_train,
                   y_train, X_test, y_test, predictions, fitted, raised, total_time,
                   grid_search, y_pred, metrics, files>>

\* the estimator predict() asks for predictions
XGB_Predictor == [estimator |-> best_xgb_model.estimator, params |-> best_xgb_model.params]

\* model.predict(X): one value per row, made by that model from that row
Predict(model, X) == [i \in 1..Len(X) |-> [fn |-> "predict", model |-> model, x |-> X[i]]]

\* save_predictions(): y_pred.to_csv("predictions.csv", index=False); the
\* frame has the single column 0
XGB_csv(pred) ==
    [name |-> "predictions.csv",
     header |-> <<"0">>,
     rows |-> [i \in 1..Len(pred) |-> <<pred[i]>>]]

XGB_predict_saving_first ==
    /\ script = "XGB" /\ pc = "trained"
    /\ y_pred' = Predict(XGB_Predictor, X_test)
    /\ files' = files \cup {XGB_csv(Predict(XGB_Predictor, X_test))}
    /\ pc' = "predicted"
    /\ UNCHANGED <<script, error, excel_data, data, split_args, train_data, test_data,
                   X_train, y_train, X_test, y_test, predictions, fitted, raised,
                   total_time, grid_search, best_xgb_model, metrics>>

\* predict(): y_pred = DataFrame(best_xgb_model.predict(X_test)); on a test
\* set without rows the library either raises or returns no prediction
XGB_predict ==
    /\ script = "XGB" /\ pc = "trained"
    /\ \/ /\ y_pred' = Predict(XGB_Predictor, X_test)
          /\ pc' = "predicted"
          /\ UNCHANGED error
       \/ /\ X_test = <<>>
          /\ Raise("ValueError", "predict")
          /\ UNCHANGED y_pred
    /\ UNCHANGED <<script, excel_data, data, split_args, train_data, test_data, X_train,
                   y_train, X_test, y_test, predictions, fitted, raised, total_time,
                   grid_search, best_xgb_model, metrics, files>>

\* evaluate()
XGB_evaluate ==
    /\ script = "XGB" /\ pc = "predicted"
    /\ IF MetricsRaise(y_test, y_pred)
       THEN Raise("ValueError", "evaluate") /\ UNCHANGED metrics
       ELSE /\ metrics' = MetricsOf(y_test, y_pred)
            /\ pc' = "evaluated"
            /\ UNCHANGED error
    /\ UNCHANGED <<script, excel_data, data, split_args, train_data, test_data, X_train,
                   y_train, X_test, y_test, predictions, fitted, raised, total_time,
                   grid_search, best_xgb_model, y_pred, files>>

XGB_save_predictions ==
    /\ script = "XGB" /\ pc = "evaluated"
    /\ files' = files \cup {XGB_csv(y_pred)}
    /\ pc' = "saved"
    /\ UNCHANGED <<script, error, excel_data, data, split_args, train_data, test_data,
                   X_train, y_train, X_test, y_test, predictions, fitted, raised,
                   total_time, grid_search, best_xgb_model, y_pred, metrics>>

\* print_evaluation_metrics()
XGB_print_evaluation_metrics ==
    /\ script = "XGB" /\ pc = "saved"
    /\ IF metrics.set /\ total_time # "unset"
       THEN pc' = "done" /\ UNCHANGED error
       ELSE Raise("AttributeError", "print_evaluation_metrics")
    /\ UNCHANGED <<script, excel_data, data, split_args, train_data, test_data, X_train,
                   y_train, X_test, y_test, predictions, fitted, raised, total_time,
                   grid_search, best_xgb_model, y_pred, metrics, files>>

---------------------------------------------------------------------------

Next ==
    \/ ARIMA_init
    \/ ARIMA_split_data
    \/ ARIMA_train_and_evaluate
    \/ ARIMA_predict_upcoming_year
    \/ ARIMA_print_evaluation_metrics
    \/ XGB_init
    \/ XGB_split_data
    \/ XGB_train_search
    \/ XGB_train_refit
    \/ XGB_predict
    \/ XGB_evaluate
    \/ XGB_save_predictions
    \/ XGB_print_evaluation_metrics

Spec == Init /\ [][Next]_vars

---------------------------------------------------------------------------
(* The metrics evaluation alone, on arbitrary arguments: evaluate() reads  *)
(* the fields y_test and y_pred, calculate_evaluation_metrics its list.    *)

Values == 0..1

SeqsUpTo(S, n) == UNION {[1..k -> S] : k \in 0..n}

\* calculate_evaluation_metrics(predictions) called on its own
ARIMA_calculate_evaluation_metrics ==
    /\ script = "ARIMA" /\ pc = "metrics_call"
    /\ calculate_evaluation_metrics(predictions.val)
    /\ UNCHANGED <<script, excel_data, data, split_args, train_data, test_data, X_train,
                   y_train, X_test, y_test, predictions, fitted, raised, total_time,
                   grid_search, best_xgb_model, y_pred, files>>

MetricsInit ==
    /\ script \in {"ARIMA", "XGB"}
    /\ IF script = "ARIMA"
       THEN /\ pc = "metrics_call"
            /\ predictions \in {[set |-> TRUE, val |-> v] :
                                  v \in SeqsUpTo({1} \X Values \X Values, MaxLen)}
            /\ y_test = <<>>
            /\ y_pred = <<>>
       ELSE /\ pc = "predicted"
            /\ predictions = NoPredictions
            /\ y_test \in SeqsUpTo(Values, MaxLen)
            /\ y_pred \in SeqsUpTo(Values, MaxLen)
    /\ excel_data = <<>>
    /\ error = NoError
    /\ data = <<>>
    /\ split_args = [train_year |-> DefaultTrainYear, test_year |-> DefaultTestYear]
    /\ train_data = <<>>
    /\ test_data = <<>>
    /\ X_train = <<>>
    /\ y_train = <<>>
    /\ X_test = <<>>
    /\ fitted = {}
    /\ raised = {}
    /\ total_time = "unset"
    /\ grid_search = NoModel
    /\ best_xgb_model = NoModel
    /\ metrics = NoMetrics
    /\ files = {}

MetricsNext ==
    \/ ARIMA_calculate_evaluation_metrics
    \/ XGB_evaluate

MetricsSpec == MetricsInit /\ [][MetricsNext]_vars

---------------------------------------------------------------------------
(* Properties.                                                             *)

HasComune == excel_data # <<>> /\ ColComune \in SheetColumns(excel_data)
Assembled == pc \notin {"new", "metrics_call"} /\ error.at # "prepare_data"
EntitiesOf(df) == {df[i]["comune"] : i \in 1..Len(df)}
HasRows(df, comune) == \E i \in 1..Len(df) : df[i]["comune"] = comune

\* the comuni with at least one row in the training set and in the test set
EligibleSet == {c \in EntitiesOf(data) : HasRows(train_data, c) /\ HasRows(test_data, c)}

\* C1, as claimed: after split_data, for every train cutoff and test year
\* (test_year <= train_year too), no (entity, year) pair is in both the
\* training set and the test set, in either variant.
C1_SplitAlwaysDisjoint ==
    HasComune => Pairs(train_data) \cap Pairs(test_data) = {}

\* C1, amended: the sets are disjoint when test_year > train_year, and in the
\* tabular split always; when test_year <= train_year every test record is
\* a training record as well.
C1_SplitDisjointWhenTestAfterCutoff ==
    HasComune =>
      /\ (script = "XGB" \/ split_args.test_year > split_args.train_year)
            => Pairs(train_data) \cap Pairs(test_data) = {}
      /\ (script = "ARIMA" /\ split_args.test_year <= split_args.train_year)
            => Pairs(test_data) \subseteq Pairs(train_data)

C1_Witness ==
    /\ script = "ARIMA" /\ pc = "split" /\ HasComune
    /\ split_args.test_year > split_args.train_year
    /\ train_data # <<>> /\ test_data # <<>>

\* C2, as claimed: the assembled dataset of either variant holds no two
\* records with the same (entity, year) pair.
C2_NoDuplicatePairs ==
    (Assembled /\ HasComune) => Cardinality(Pairs(data)) = Len(data)

\* C3, as claimed: when the fit of one comune raises in train_and_evaluate,
\* the run goes on: the comune is skipped, every other eligible comune gets
\* its prediction record and the run is not ended by the failure.
C3_FitFailureDoesNotAbort ==
    raised # {} =>
      /\ ~(pc = "failed" /\ error.kind = "ModelFitFailure")
      /\ predictions.set
      /\ {predictions.val[i][1] : i \in 1..Len(predictions.val)} = EligibleSet \ raised

\* C4: train_and_evaluate neither records nor fits a comune whose training
\* slice or test slice is empty, and an exception leaves its loop only
\* while a comune with both slices is being fitted.
C4_NoEntityWithEmptySlice ==
    (script = "ARIMA" /\ HasComune) =>
      /\ \A i \in 1..Len(predictions.val) :
            /\ HasRows(train_data, predictions.val[i][1])
            /\ HasRows(test_data, predictions.val[i][1])
      /\ \A c \in fitted : HasRows(train_data, c) /\ HasRows(test_data, c)
      /\ (pc = "failed" /\ error.at = "train_and_evaluate") => fitted # {}

C4_Witness ==
    /\ script = "ARIMA" /\ pc = "evaluated"
    /\ \E c \in EntitiesOf(data) : ~HasRows(test_data, c) /\ c \notin fitted
    /\ \E c \in EntitiesOf(data) : ~HasRows(train_data, c) /\ c \notin fitted
    /\ Len(predictions.val) >= 1

\* C5: once train_and_evaluate has completed, the prediction list holds
\* exactly one record for each comune with rows in both sets, the record's
\* true value is a test-year outcome of that comune, its prediction is the
\* forecast from that comune's training outcomes, and every metric is
\* computed over exactly these true values and predictions.
C5_OneRecordPerEligibleEntity ==
    (script = "ARIMA" /\ pc \in {"evaluated", "saved", "done"}) =>
      LET preds == predictions.val
          yt == [i \in 1..Len(preds) |-> preds[i][3]]
          yp == [i \in 1..Len(preds) |-> preds[i][2]]
      IN  /\ predictions.set
          /\ Len(preds) = Cardinality(EligibleSet)
          /\ {preds[i][1] : i \in 1..Len(preds)} = EligibleSet
          /\ \A i \in 1..Len(preds) :
                /\ \E k \in 1..Len(data) :
                      /\ data[k]["comune"] = preds[i][1]
                      /\ data[k]["year"] = split_args.test_year
                      /\ data[k]["cns deaths"] = preds[i][3]
                /\ preds[i][2].series =
                      Column(CityRows(ARIMA_TrainRows(data, split_args.train_year),
                                      preds[i][1]), "cns deaths")
          /\ metrics.set
          /\ \A m \in {metrics.mse, metrics.r2, metrics.evs, metrics.mae, metrics.medae} :
                m.y_true = yt /\ m.y_pred = yp
          /\ metrics.rmse.of = metrics.mse

C5_Witness ==
    /\ script = "ARIMA" /\ pc = "evaluated"
    /\ Len(predictions.val) = 2
    /\ Cardinality(EligibleSet) = 2

\* C6: in both scripts, a run that ended in an exception has written no
\* CSV file.
C6_NoFileBeforeFatalError ==
    pc = "failed" => files = {}

C6_Witness ==
    /\ script = "XGB" /\ pc = "failed"
    /\ error = [kind |-> "ValueError", at |-> "evaluate"]
    /\ best_xgb_model.set

\* C7: a metrics evaluation whose true and predicted sequences differ in
\* length, or are both empty, ends in ValueError and sets no metric.
C7_MetricsRaiseOnBadInput ==
    LET yt == IF script = "XGB" THEN y_test ELSE ARIMA_y_true(predictions.val)
        yp == IF script = "XGB" THEN y_pred ELSE ARIMA_y_pred(predictions.val)
    IN  (pc \notin {"predicted", "metrics_call"} /\ (Len(yt) # Len(yp) \/ Len(yt) = 0))
           => (pc = "failed" /\ error.kind = "ValueError" /\ ~metrics.set)

C7_Witness ==
    /\ script = "XGB" /\ pc = "failed" /\ ~metrics.set
    /\ Len(y_test) # Len(y_pred) /\ y_test # <<>> /\ y_pred # <<>>

\* a CSV file that maps entity to prediction, one row per distinct entity
MapsEachEntityOnce(f) ==
    /\ \E h \in 1..Len(f.header) : f.header[h] = "comune"
    /\ \A i \in 1..Len(f.rows) : Len(f.rows[i]) = 2
    /\ \A i, j \in 1..Len(f.rows) : i # j => f.rows[i][1] # f.rows[j][1]
    /\ {f.rows[i][1] : i \in 1..Len(f.rows)} = EntitiesOf(data)

\* C8, as claimed: the CSV file each script writes has exactly one row per
\* distinct entity, the row holding the entity identifier and its prediction.
C8_CsvOneRowPerEntity ==
    \A f \in files : MapsEachEntityOnce(f)

\* C8, amended: the ARIMA file has exactly one row per distinct entity,
\* holding the identifier and the prediction; the XGB file has one row per
\* test-set record, holding the predicted value alone under the header "0".
C8_CsvRowsPerVariant ==
    \A f \in files :
      IF script = "ARIMA"
      THEN /\ f.name = "cns_deaths_predictions_ARIMA.csv"
           /\ MapsEachEntityOnce(f)
           /\ \A i \in 1..Len(f.rows) : f.rows[i][2].fn = "auto_arima.predict"
      ELSE /\ f.name = "predictions.csv"
           /\ f.header = <<"0">>
           /\ Len(f.rows) = Len(test_data)
           /\ \A i \in 1..Len(f.rows) :
                 Len(f.rows[i]) = 1 /\ f.rows[i][1].x = Project(test_data[i], FeatureColumns)

C8_Witness ==
    /\ script = "ARIMA" /\ pc = "saved"
    /\ \E f \in files : Len(f.rows) = 2
    /\ Len(data) > 2

\* C9, as claimed: in the assembled dataset two records have the same year
\* exactly when they were read from the same sheet.
C9_YearIdentifiesSheet ==
    Assembled =>
      LET tagged == {<<data[k]["year"], SheetOfRow(excel_data, k, 1)>> : k \in 1..Len(data)}
      IN  \A a, b \in tagged : (a[1] = b[1]) <=> (a[2] = b[2])

\* C10: in the XGB script the search and the final fit are given exactly the
\* rows of year < 10 and so no row of the test year; the final model is
\* fitted with the search's best parameters, after the search; the metrics
\* are computed from y_test and that model's predictions on the test rows.
C10_RefitBestOnTrainOnly ==
    script = "XGB" =>
      LET train == XGB_TrainRows(data)
          test == XGB_TestRows(data)
          NoTestRow(X) == \A i \in 1..Len(X) : X[i]["year"] # TestYearIndex
      IN  /\ grid_search.set =>
                /\ grid_search.X = Features(train)
                /\ grid_search.y = Column(train, "cns deaths")
                /\ NoTestRow(grid_search.X)
          /\ best_xgb_model.set =>
                /\ grid_search.set
                /\ best_xgb_model.params = grid_search.best_params_
                /\ best_xgb_model.X = Features(train)
                /\ best_xgb_model.y = Column(train, "cns deaths")
                /\ NoTestRow(best_xgb_model.X)
          /\ metrics.set =>
                /\ best_xgb_model.set
                /\ \A m \in {metrics.mse, metrics.r2, metrics.evs, metrics.mae,
                             metrics.medae} :
                      /\ m.y_true = Column(test, "cns deaths")
                      /\ Len(m.y_pred) = Len(test)
                      /\ \A i \in 1..Len(test) :
                            /\ m.y_pred[i].model.estimator = "best_xgb_model"
                            /\ m.y_pred[i].model.params = best_xgb_model.params
                            /\ m.y_pred[i].x = Project(test[i], FeatureColumns)

C10_Witness ==
    /\ script = "XGB" /\ pc = "evaluated"
    /\ metrics.set /\ Len(y_pred) > 0
    /\ Len(best_xgb_model.X) >= CvFolds

=============================================================================
